---- MODULE Spec2Model ----
(***************************************************************************)
(* Regime-aware market-making simulator: the quoting/fill engine           *)
(* (src/src/mm_engine.py), the stepping loop (src/src/simulator.py) and    *)
(* the regime chain (src/src/price_process.py).                            *)
(*                                                                         *)
(* Number representation (Python floats are modelled as exact rationals):  *)
(*   - a mid price is an integer number of price units;                    *)
(*   - a quote (bid, ask) and cash are integers in units of 1/PriceScale   *)
(*     of a price unit, PriceScale = 2 * 10000, so that                    *)
(*     mid - spread/2 - skew and mid + spread/2 - 0.5*skew are exact;      *)
(*   - a float that may be NaN is a record [nan, v];                       *)
(*   - inventory is an integer number of units (the code only ever adds    *)
(*     or subtracts 1.0 from 0.0); inv_cap is held in units of 1/CapScale  *)
(*     so that a non-integer cap such as 1.5 or 2.5 is representable;      *)
(*   - a probability and a uniform draw are integers in units of           *)
(*     1/ProbScale; kappa and the toxicity multipliers are in tenths;      *)
(*   - a transition probability is an integer in units of 1/MatScale;      *)
(*   - an annualized volatility is an integer in units of 1/SigScale, the  *)
(*     annual drift in units of 1/(2*SigScale^2), sqrt(dt) is              *)
(*     dt_root/RootDen and a log-return is an integer in units of          *)
(*     1/(2*SigScale^2*RootDen^2), so that (mu - 0.5*sigma^2)*dt +         *)
(*     sigma*sqrt(dt)*Z is exact;                                          *)
(*   - a price of the simulated path is the pair [base, log] standing for  *)
(*     base * exp(log): np.exp is positive and exp(0.0) = 1.0, so the sign *)
(*     of a price is the sign of base and base * exp(0) is base.           *)
(***************************************************************************)
EXTENDS Integers, Sequences, FiniteSets

VARIABLES
    entry,    \* the function this execution drives: "step_mm", "quote_prices",
              \* "run_mm_on_path", "sample_regimes",
              \* "simulate_markov_switching_gbm" or "main"
    params,   \* the MMParams object of the execution
    st,       \* the MMState object handed to step_mm / quote_prices (cash, inv)
    calls,    \* number of step_mm calls made so far
    last,     \* the last step_mm / quote_prices call: its arguments, locals and result
    run,      \* the frame of run_mm_on_path
    chain,    \* the frame of sample_regimes
    sim,      \* the frame of simulate_markov_switching_gbm
    main      \* the frame of main: the shared path and the loop over configs

vars == <<entry, params, st, calls, last, run, chain, sim, main>>

\* ------------------------------------------------------------------ bounds

\* step_mm calls made on one MMState
MaxCalls == 2
\* longest path handed to run_mm_on_path / sample_regimes
MaxSteps == 2
\* largest |inventory| of an MMState handed to quote_prices directly
MaxInv == 3

\* ------------------------------------------------------------------ units

BpsDen == 10000
PriceScale == 2 * BpsDen
CapScale == 2
ProbScale == 10 ^ 4
TenthScale == 10
ExpTick == 40
SigScale == 5
RootDen == 725

Max(a, b) == IF a >= b THEN a ELSE b
Min(a, b) == IF a <= b THEN a ELSE b
Abs(a) == IF a < 0 THEN -a ELSE a

NaN == [nan |-> TRUE, v |-> 0]
Num(x) == [nan |-> FALSE, v |-> x]

\* ------------------------------------------------------------------ mm_engine.py

\* MMParams(): the dataclass defaults.
DefaultMMParams ==
    [ spread_bps_low     |-> 8,
      spread_bps_med     |-> 12,
      spread_bps_high    |-> 25,
      skew_bps_per_unit  |-> 2,
      base_fill_prob     |-> (20 * ProbScale) \div 100,
      kappa              |-> 15,
      inv_cap            |-> 3 * CapScale,
      kill_switch_regime |-> 2,
      kill_switch_mode   |-> "pause",
      adverse_selection  |-> TRUE,
      tox_med            |-> 13,
      tox_high           |-> 20 ]

\* MMState(): cash = 0.0, inv = 0.0
NewMMState == [cash |-> 0, inv |-> 0]

WideFloorBps == 80
ProbCap == (95 * ProbScale) \div 100

spread_bps_for_regime(p, regime) ==
    IF regime = 0 THEN p.spread_bps_low
    ELSE IF regime = 1 THEN p.spread_bps_med
    ELSE p.spread_bps_high

\* Mutant: the pause/widen threshold compared with > instead of >=.
KillSwitch_StrictThreshold(regime, p) ==
    IF p.kill_switch_mode = "None"
    THEN [exit |-> "quote", spread_bps |-> spread_bps_for_regime(p, regime)]
    ELSE IF regime > p.kill_switch_regime
    THEN IF p.kill_switch_mode = "pause"
         THEN [exit |-> "paused", spread_bps |-> spread_bps_for_regime(p, regime)]
         ELSE IF p.kill_switch_mode = "widen"
         THEN [exit |-> "quote",
               spread_bps |-> Max(spread_bps_for_regime(p, regime), WideFloorBps)]
         ELSE [exit |-> "invalid", spread_bps |-> spread_bps_for_regime(p, regime)]
    ELSE [exit |-> "quote", spread_bps |-> spread_bps_for_regime(p, regime)]

\* Mutant: an unrecognised mode falls through and quotes the base spread.
KillSwitch_InvalidQuotes(regime, p) ==
    IF p.kill_switch_mode = "None"
    THEN [exit |-> "quote", spread_bps |-> spread_bps_for_regime(p, regime)]
    ELSE IF regime >= p.kill_switch_regime
    THEN IF p.kill_switch_mode = "pause"
         THEN [exit |-> "paused", spread_bps |-> spread_bps_for_regime(p, regime)]
         ELSE IF p.kill_switch_mode = "widen"
         THEN [exit |-> "quote",
               spread_bps |-> Max(spread_bps_for_regime(p, regime), WideFloorBps)]
         ELSE [exit |-> "quote", spread_bps |-> spread_bps_for_regime(p, regime)]
    ELSE [exit |-> "quote", spread_bps |-> spread_bps_for_regime(p, regime)]

\* Mutant: widen sets the spread to the floor instead of max(spread, floor).
KillSwitch_FlatFloor(regime, p) ==
    IF p.kill_switch_mode = "None"
    THEN [exit |-> "quote", spread_bps |-> spread_bps_for_regime(p, regime)]
    ELSE IF regime >= p.kill_switch_regime
    THEN IF p.kill_switch_mode = "pause"
         THEN [exit |-> "paused", spread_bps |-> spread_bps_for_regime(p, regime)]
         ELSE IF p.kill_switch_mode = "widen"
         THEN [exit |-> "quote", spread_bps |-> WideFloorBps]
         ELSE [exit |-> "invalid", spread_bps |-> spread_bps_for_regime(p, regime)]
    ELSE [exit |-> "quote", spread_bps |-> spread_bps_for_regime(p, regime)]

\* Mutant: the test for a disabled kill switch is missing, so mode None
\* reaches the threshold test and is treated as an unrecognised mode.
KillSwitch_NoneChecked(regime, p) ==
    IF regime >= p.kill_switch_regime
    THEN IF p.kill_switch_mode = "pause"
         THEN [exit |-> "paused", spread_bps |-> spread_bps_for_regime(p, regime)]
         ELSE IF p.kill_switch_mode = "widen"
         THEN [exit |-> "quote",
               spread_bps |-> Max(spread_bps_for_regime(p, regime), WideFloorBps)]
         ELSE [exit |-> "invalid", spread_bps |-> spread_bps_for_regime(p, regime)]
    ELSE [exit |-> "quote", spread_bps |-> spread_bps_for_regime(p, regime)]

\* The spread (bps) quote_prices applies; "paused" and "invalid" are the two
\* early exits of the kill-switch block.
KillSwitch(regime, p) ==
    IF p.kill_switch_mode = "None"
    THEN [exit |-> "quote", spread_bps |-> spread_bps_for_regime(p, regime)]
    ELSE IF regime >= p.kill_switch_regime
    THEN IF p.kill_switch_mode = "pause"
         THEN [exit |-> "paused", spread_bps |-> spread_bps_for_regime(p, regime)]
         ELSE IF p.kill_switch_mode = "widen"
         THEN [exit |-> "quote",
               spread_bps |-> Max(spread_bps_for_regime(p, regime), WideFloorBps)]
         ELSE [exit |-> "invalid", spread_bps |-> spread_bps_for_regime(p, regime)]
    ELSE [exit |-> "quote", spread_bps |-> spread_bps_for_regime(p, regime)]

\* Mutant: the skew is added to the bid instead of subtracted.
BidOf_SkewSign(mid, spread_bps, p, inv) ==
    mid * PriceScale - mid * spread_bps + 2 * mid * p.skew_bps_per_unit * inv

\* bid = mid - spread/2 - skew, in 1/PriceScale units
BidOf(mid, spread_bps, p, inv) ==
    mid * PriceScale - mid * spread_bps - 2 * mid * p.skew_bps_per_unit * inv

\* ask = mid + spread/2 - 0.5*skew, in 1/PriceScale units
AskOf(mid, spread_bps, p, inv) ==
    mid * PriceScale + mid * spread_bps - mid * p.skew_bps_per_unit * inv

\* quote_prices after its kill-switch block
QuoteWith(mid, s, p, ks) ==
    IF ks.exit = "invalid"
    THEN [err |-> "ValueError", bid |-> NaN, ask |-> NaN, enabled |-> FALSE]
    ELSE IF ks.exit = "paused"
    THEN [err |-> "none", bid |-> NaN, ask |-> NaN, enabled |-> FALSE]
    ELSE [err |-> "none",
          bid |-> Num(BidOf(mid, ks.spread_bps, p, s.inv)),
          ask |-> Num(AskOf(mid, ks.spread_bps, p, s.inv)),
          enabled |-> TRUE]

quote_prices(mid, regime, s, p) ==
    CHOOSE q \in { QuoteWith(mid, s, p, ks) : ks \in {KillSwitch(regime, p)} } : TRUE

\* exp(-2^(k-1)/ExpTick) in 1/ProbScale units, k = 1..12
ExpTable == <<9753, 9512, 9048, 8187, 6703, 4493, 2019, 408, 17, 0, 0, 0>>

RECURSIVE ExpBits(_, _, _)
ExpBits(n, k, acc) ==
    IF n = 0 THEN acc
    ELSE IF k > Len(ExpTable) THEN 0
    ELSE ExpBits(n \div 2, k + 1,
                 IF n % 2 = 1 THEN (acc * ExpTable[k]) \div ProbScale ELSE acc)

\* exp(-ticks/ExpTick), fixed point
ExpNeg(ticks) == ExpBits(ticks, 1, ProbScale)

\* base_fill_prob * exp(-kappa * dist * 10000/10) clipped to [0, 1], where
\* dist = |quote - mid| / mid carries the sign of mid and e = exp(-kappa*|dist|*1000)
ClippedProb(mid, e, p) ==
    IF mid > 0 THEN Max(0, Min(ProbScale, (p.base_fill_prob * e) \div ProbScale))
    ELSE IF e = 0 THEN (IF p.base_fill_prob > 0 THEN ProbScale ELSE 0)
    ELSE Max(0, Min(ProbScale, (p.base_fill_prob * ProbScale) \div e))

\* kappa * |dist| * 10000/10 in units of 1/ExpTick
DecayTicks(mid, quote, p) ==
    (p.kappa * ExpTick * ((Abs(quote - mid * PriceScale) * 100) \div Abs(mid)))
        \div PriceScale

FillProb(mid, quote, p) == ClippedProb(mid, ExpNeg(DecayTicks(mid, quote, p)), p)

\* abs(quote - mid) / mid raises ZeroDivisionError for mid = 0.0
fill_probability(mid, quote, p) ==
    IF mid = 0 THEN [err |-> "ZeroDivisionError", p |-> 0]
    ELSE [err |-> "none", p |-> FillProb(mid, quote, p)]

\* sign of (mid_next - mid) / mid, mid # 0
RetSign(mid, mid_next) ==
    IF mid_next = mid THEN 0
    ELSE IF (mid_next > mid) = (mid > 0) THEN 1 ELSE -1

\* tox, in tenths
Tox(regime, p) ==
    IF regime = 2 THEN p.tox_high
    ELSE IF regime = 1 THEN p.tox_med
    ELSE TenthScale

\* Mutant: the scaled probability is not capped.
Scaled_Uncapped(p0, regime, p) == (p0 * Tox(regime, p)) \div TenthScale

\* min(0.95, p0 * tox)
Scaled(p0, regime, p) == Min(ProbCap, (p0 * Tox(regime, p)) \div TenthScale)

\* the probability compared with the draw on the bid side
BidProb(mid, mid_next, regime, bid, p) ==
    IF p.adverse_selection /\ RetSign(mid, mid_next) < 0
    THEN Scaled(fill_probability(mid, bid, p).p, regime, p)
    ELSE fill_probability(mid, bid, p).p

\* the probability compared with the draw on the ask side
AskProb(mid, mid_next, regime, ask, p) ==
    IF p.adverse_selection /\ RetSign(mid, mid_next) > 0
    THEN Scaled(fill_probability(mid, ask, p).p, regime, p)
    ELSE fill_probability(mid, ask, p).p

CanBuy(s, p) == s.inv * CapScale < p.inv_cap
CanSell(s, p) == s.inv * CapScale > -p.inv_cap

\* One side of a step: whether it was tried, the probability compared with
\* the draw, whether it filled, and the state after it.
Side(tried, pr, hit, s) == [tried |-> tried, p |-> pr, hit |-> hit, st |-> s]

\* "Try buy fill at bid": u is the draw, pr the bid-side probability
BuyDraw(s, bid, u, pr) ==
    IF u < pr THEN Side(TRUE, pr, TRUE, [cash |-> s.cash - bid, inv |-> s.inv + 1])
    ELSE Side(TRUE, pr, FALSE, s)

\* "Try sell fill at ask": u is the draw, pr the ask-side probability
SellDraw(s, ask, u, pr) ==
    IF u < pr THEN Side(TRUE, pr, TRUE, [cash |-> s.cash + ask, inv |-> s.inv - 1])
    ELSE Side(TRUE, pr, FALSE, s)

\* The result of a step_mm call that raised: no record, state as it was.
Raised(e, where, s) ==
    [err |-> e, raised_in |-> where, bid |-> NaN, ask |-> NaN, filled |-> "None",
     st |-> s, draws |-> 0, tried_buy |-> FALSE, tried_sell |-> FALSE,
     p_bid |-> 0, p_ask |-> 0, bought |-> FALSE, sold |-> FALSE]

\* The step record and the state of a quoting step with buy side b and
\* sell side a.
StepRecord(q, b, a) ==
    [err |-> "none", raised_in |-> "none", bid |-> q.bid, ask |-> q.ask,
     filled |-> IF a.hit THEN (IF b.hit THEN "buy+sell" ELSE "sell")
                ELSE IF b.hit THEN "buy" ELSE "None",
     st |-> a.st,
     draws |-> (IF b.tried THEN 1 ELSE 0) + (IF a.tried THEN 1 ELSE 0),
     tried_buy |-> b.tried, tried_sell |-> a.tried,
     p_bid |-> b.p, p_ask |-> a.p, bought |-> b.hit, sold |-> a.hit]

\* Mutant: the uniform draw is taken before can_buy is looked at, so a buy
\* side that is not admitted still consumes a draw.
BuySide_DrawsUnadmitted(mid, mid_next, regime, s, p, u, q) ==
    IF ~CanBuy(s, p) THEN Side(TRUE, 0, FALSE, s)
    ELSE CHOOSE b \in { BuyDraw(s, q.bid.v, u[1], pr) :
                          pr \in {BidProb(mid, mid_next, regime, q.bid.v, p)} } : TRUE

\* The buy attempt: can_buy is decided on the state the step starts with.
BuySide(mid, mid_next, regime, s, p, u, q) ==
    IF ~CanBuy(s, p) THEN Side(FALSE, 0, FALSE, s)
    ELSE CHOOSE b \in { BuyDraw(s, q.bid.v, u[1], pr) :
                          pr \in {BidProb(mid, mid_next, regime, q.bid.v, p)} } : TRUE

\* Mutant: the sell fill acts on the state the step started with, losing the
\* buy of the same step.
SellSide_StaleState(mid, mid_next, regime, s0, p, u, q, b) ==
    IF ~CanSell(s0, p) THEN Side(FALSE, 0, FALSE, b.st)
    ELSE CHOOSE a \in { SellDraw(s0, q.ask.v, IF b.tried THEN u[2] ELSE u[1], pr) :
                          pr \in {AskProb(mid, mid_next, regime, q.ask.v, p)} } : TRUE

\* Mutant: can_sell is decided after the buy attempt, on the state the buy
\* left.
SellSide_AdmitAfterBuy(mid, mid_next, regime, s0, p, u, q, b) ==
    IF ~CanSell(b.st, p) THEN Side(FALSE, 0, FALSE, b.st)
    ELSE CHOOSE a \in { SellDraw(b.st, q.ask.v, IF b.tried THEN u[2] ELSE u[1], pr) :
                          pr \in {AskProb(mid, mid_next, regime, q.ask.v, p)} } : TRUE

\* Mutant: the ask is quoted again after the buy attempt, so a sell that
\* follows a buy is paid at an ask skewed by the new inventory.
SellSide_Requoted(mid, mid_next, regime, s0, p, u, q, b) ==
    IF ~CanSell(s0, p) THEN Side(FALSE, 0, FALSE, b.st)
    ELSE CHOOSE a \in { SellDraw(b.st, quote_prices(mid, regime, b.st, p).ask.v,
                                  IF b.tried THEN u[2] ELSE u[1], pr) :
                          pr \in {AskProb(mid, mid_next, regime, q.ask.v, p)} } : TRUE

\* The sell attempt: can_sell is decided on the state the step starts with
\* (s0), the fill acts on the state after the buy attempt (b.st); the sell
\* side takes the next unused draw.
SellSide(mid, mid_next, regime, s0, p, u, q, b) ==
    IF ~CanSell(s0, p) THEN Side(FALSE, 0, FALSE, b.st)
    ELSE CHOOSE a \in { SellDraw(b.st, q.ask.v, IF b.tried THEN u[2] ELSE u[1], pr) :
                          pr \in {AskProb(mid, mid_next, regime, q.ask.v, p)} } : TRUE

\* The fills of a quoting step; u is the next two values of rng.random().
Fills(mid, mid_next, regime, s, p, u, q) ==
    CHOOSE r \in { StepRecord(q, b, SellSide(mid, mid_next, regime, s, p, u, q, b)) :
                     b \in {BuySide(mid, mid_next, regime, s, p, u, q)} } : TRUE

\* step_mm after its call of quote_prices returned q (or raised)
StepWithQuote(mid, mid_next, regime, s, p, u, q) ==
    IF q.err # "none" THEN Raised(q.err, "quote_prices", s)
    ELSE IF ~q.enabled
    THEN [err |-> "none", raised_in |-> "none", bid |-> NaN, ask |-> NaN,
          filled |-> "None", st |-> s, draws |-> 0,
          tried_buy |-> FALSE, tried_sell |-> FALSE,
          p_bid |-> 0, p_ask |-> 0, bought |-> FALSE, sold |-> FALSE]
    ELSE IF mid = 0 /\ p.adverse_selection
    THEN Raised("ZeroDivisionError", "step_mm", s)
    ELSE IF mid = 0 /\ (CanBuy(s, p) \/ CanSell(s, p))
    THEN Raised(fill_probability(mid, q.bid.v, p).err, "fill_probability", s)
    ELSE Fills(mid, mid_next, regime, s, p, u, q)

step_mm(mid, mid_next, regime, s, p, u) ==
    CHOOSE r \in { StepWithQuote(mid, mid_next, regime, s, p, u, q) :
                     q \in {quote_prices(mid, regime, s, p)} } : TRUE

\* ------------------------------------------------------------------ price_process.py

MatScale == 10 ^ 8

\* np.allclose(row_sums, 1.0, atol=1e-8): |sum - 1| <= atol + rtol * |1.0| with
\* numpy's default rtol = 1e-5
AllcloseTol == MatScale \div (10 ^ 8) + MatScale \div (10 ^ 5)

\* Generator.choice(n, p=row): |sum(p) - 1| <= sqrt(eps) ~ 1.49e-8
ChoiceTol == (149 * (MatScale \div (10 ^ 8))) \div 100

RECURSIVE SumSeq(_)
SumSeq(q) == IF q = <<>> THEN 0 ELSE Head(q) + SumSeq(Tail(q))

\* P.ndim != 2 or P.shape[0] != P.shape[1]
NotSquare(P) ==
    P.ndim # 2 \/ \E i \in 1 .. Len(P.rows) : Len(P.rows[i]) # Len(P.rows)

validate_transition(P) ==
    IF NotSquare(P) THEN "ValueError"
    ELSE IF \E i \in 1 .. Len(P.rows) : Abs(SumSeq(P.rows[i]) - MatScale) > AllcloseTol
    THEN "ValueError"
    ELSE IF \E i \in 1 .. Len(P.rows) : \E j \in 1 .. Len(P.rows[i]) : P.rows[i][j] < 0
    THEN "ValueError"
    ELSE "none"

\* rng.choice(n_states, p=row) raises unless row is a probability vector
ChoiceRaises(row) ==
    \/ \E j \in 1 .. Len(row) : row[j] < 0
    \/ Abs(SumSeq(row) - MatScale) > ChoiceTol

\* Mutant: the next state is drawn uniformly, ignoring the row's weights.
ChoiceSupport_IgnoresWeights(row) == { j - 1 : j \in 1 .. Len(row) }

\* the states rng.choice can return
ChoiceSupport(row) == { j - 1 : j \in { k \in 1 .. Len(row) : row[k] > 0 } }

\* the frame of sample_regimes after validation
ChainEntered(P, start_state, n_steps) ==
    IF validate_transition(P) # "none"
    THEN [pc |-> "raised", P |-> P, start_state |-> start_state, n_steps |-> n_steps,
          states |-> <<>>, s |-> start_state, t |-> 0, draws |-> 0,
          err |-> "ValueError", raised_in |-> "validate_transition"]
    ELSE IF ~(0 <= start_state /\ start_state < Len(P.rows))
    THEN [pc |-> "raised", P |-> P, start_state |-> start_state, n_steps |-> n_steps,
          states |-> <<>>, s |-> start_state, t |-> 0, draws |-> 0,
          err |-> "ValueError", raised_in |-> "sample_regimes"]
    ELSE [pc |-> "loop", P |-> P, start_state |-> start_state, n_steps |-> n_steps,
          states |-> <<>>, s |-> start_state, t |-> 0, draws |-> 0,
          err |-> "none", raised_in |-> "none"]

\* Mutant: the label recorded at step t is the state after the transition.
ChainStepped_LabelAfter(f, j) ==
    [f EXCEPT !.states = Append(@, j), !.s = j, !.draws = @ + 1, !.t = @ + 1]

\* lines 56-57: states[t] = s, then s = j, the value rng.choice returned
ChainStepped(f, j) ==
    [f EXCEPT !.states = Append(@, f.s), !.s = j, !.draws = @ + 1, !.t = @ + 1]

\* (mu - 0.5*sigma^2)*dt + sigma*sqrt(dt)*z, in 1/(2*SigScale^2*RootDen^2)
LogReturn(gp, sigma, z) ==
    (gp.mu_annual - sigma * sigma) * gp.dt_root * gp.dt_root
        + 2 * SigScale * sigma * gp.dt_root * RootDen * z

\* np.cumsum
RECURSIVE CumSum(_, _)
CumSum(q, acc) ==
    IF q = <<>> THEN <<>>
    ELSE <<acc + Head(q)>> \o CumSum(Tail(q), acc + Head(q))

\* the float base * exp(log)
Price(base, log) == [base |-> base, log |-> log]

\* sigmas_annual[states] raises IndexError for a state without a volatility
SigmaIndexError(gp, states) ==
    \E t \in 1 .. Len(states) : states[t] + 1 > Len(gp.sigmas_annual)

\* the frame of simulate_markov_switching_gbm while sample_regimes runs
SimEntered(gp, start_state, n_steps) ==
    [pc |-> "regimes", gp |-> gp, n_steps |-> n_steps, start_state |-> start_state,
     states |-> <<>>, sigmas_step |-> <<>>, Z |-> <<>>, log_returns |-> <<>>,
     prices |-> <<>>, err |-> "none"]

\* an exception leaves simulate_markov_switching_gbm: nothing is returned
SimRaised(f, e) == [f EXCEPT !.pc = "raised", !.err = e]

\* Mutant: the path is built without its initial price.
PricePath_DropsInitial(s0, lr) ==
    [k \in 1 .. Len(lr) |-> Price(s0, CumSum(lr, 0)[k])]

\* lines 86-99 for the increments lr: prices[0] = s0,
\* prices[1:] = s0 * exp(cumsum(log_returns))
PricePath(s0, lr) ==
    <<Price(s0, 0)>> \o [k \in 1 .. Len(lr) |-> Price(s0, CumSum(lr, 0)[k])]

\* lines 88-95: sigmas_step = sigmas_annual[states], log_returns
SimIncrements(f, states, Z, sig) ==
    [f EXCEPT !.pc = "returned", !.states = states, !.sigmas_step = sig, !.Z = Z,
              !.log_returns = [t \in 1 .. Len(states) |-> LogReturn(f.gp, sig[t], Z[t])]]

\* lines 81-101 once sample_regimes returned states and Z was drawn
SimReturned(f, states, Z) ==
    IF SigmaIndexError(f.gp, states) THEN SimRaised(f, "IndexError")
    ELSE CHOOSE g \in
           { [h EXCEPT !.prices = PricePath(f.gp.s0, h.log_returns)] :
               h \in { SimIncrements(f, states, Z,
                          [t \in 1 .. Len(states) |->
                              f.gp.sigmas_annual[states[t] + 1]]) } } : TRUE

\* ------------------------------------------------------------------ simulator.py

\* step_mm(mid, mid_next, regime, st, params, rng): six required parameters
StepMMArity == 6

\* the frame of run_mm_on_path before its loop
RunEntered(prices, regimes) ==
    [pc |-> "loop", prices |-> prices, regimes |-> regimes, t |-> 0,
     state |-> NewMMState, inventory |-> <<>>, cash |-> <<>>, equity |-> <<>>,
     quoted |-> <<>>, steps |-> 0, err |-> "none"]

\* lines 52-58: the per-step entries appended after a step_mm call returned r
RunAppended(f, mid, r) ==
    [f EXCEPT !.state = r.st,
              !.inventory = Append(@, r.st.inv),
              !.cash = Append(@, r.st.cash),
              !.equity = Append(@, r.st.cash + r.st.inv * mid * PriceScale),
              !.quoted = Append(@, ~r.bid.nan),
              !.steps = @ + 1,
              !.t = @ + 1]

\* the frame after the exception e left the loop: nothing is returned
RunFailed(f, e) == [f EXCEPT !.pc = "failed", !.err = e]

\* main, lines 68-105: the shared path and the three configurations
MainEntered(prices, regimes, configs) ==
    [pc |-> "loop", prices |-> prices, regimes |-> regimes, configs |-> configs,
     i |-> 1, results |-> <<>>, err |-> "none"]

\* main, lines 110-112: run_mm_on_path raised (main has no handler) or
\* returned out, which is stored under the configuration's name
MainCollected(m, f) ==
    IF f.pc = "failed" THEN [m EXCEPT !.pc = "failed", !.err = f.err]
    ELSE [m EXCEPT !.results = Append(@, [inventory |-> f.inventory, cash |-> f.cash,
                                          equity |-> f.equity, quoted |-> f.quoted]),
                   !.i = @ + 1,
                   !.pc = IF m.i = Len(m.configs) THEN "done" ELSE "loop"]

\* ------------------------------------------------------------------ inputs

\* (mid, mid_next) pairs: a falling, flat and rising valid price, a negative
\* and a zero mid.
MidPairs == {<<100, 99>>, <<100, 100>>, <<100, 101>>, <<-100, -101>>, <<0, 1>>}
Regimes == 0 .. 3
Draws == {0, ProbScale - 1}
Modes == {"None", "pause", "widen", "off"}

\* inv_cap = 0.0, 0.5 and 1.0
SmallCaps == {0, 1, CapScale}

\* The MMParams objects a step_mm execution runs with.
ParamConfigs ==
    { [DefaultMMParams EXCEPT !.kill_switch_mode = m] : m \in Modes }
    \cup { [DefaultMMParams EXCEPT !.kill_switch_mode = "None", !.inv_cap = c] :
             c \in SmallCaps }
    \cup { [DefaultMMParams EXCEPT !.kill_switch_mode = m, !.kill_switch_regime = 1,
                                   !.adverse_selection = FALSE] :
             m \in {"pause", "widen"} }
    \cup { [DefaultMMParams EXCEPT !.kill_switch_mode = "None",
                                   !.base_fill_prob = ProbScale,
                                   !.skew_bps_per_unit = 4,
                                   !.tox_high = 10 * TenthScale] }

\* The MMParams objects quote_prices is called with directly.
QuoteConfigs ==
    { [DefaultMMParams EXCEPT !.kill_switch_mode = m, !.kill_switch_regime = k,
                              !.spread_bps_high = h] :
        m \in Modes, k \in Regimes, h \in {25, 100} }

\* The MMParams objects run_mm_on_path is called with: main's three
\* configurations and an unrecognised mode.
RunConfigs == { [DefaultMMParams EXCEPT !.kill_switch_mode = m] : m \in Modes }

\* valid price paths are positive
RunPrices == {100, 101}

\* rows of a two-state matrix: (1,0), (0,1), (.5,.5), a row summing to 0.999,
\* a row summing to 1 - 1e-6, and a row with a negative entry summing to 1
Rows2 ==
    { <<MatScale, 0>>, <<0, MatScale>>, <<MatScale \div 2, MatScale \div 2>>,
      <<999 * (MatScale \div 1000), 0>>, <<MatScale - MatScale \div (10 ^ 6), 0>>,
      <<3 * (MatScale \div 2), -(MatScale \div 2)>> }

\* MSGBMParams.transition, the default three-state matrix
DefaultTransition ==
    [ndim |-> 2,
     rows |-> << <<97 * (MatScale \div 100), 3 * (MatScale \div 100), 0>>,
                 <<2 * (MatScale \div 100), 96 * (MatScale \div 100), 2 * (MatScale \div 100)>>,
                 <<0, 3 * (MatScale \div 100), 97 * (MatScale \div 100)>> >>]

Matrices ==
    { [ndim |-> 2, rows |-> <<r1, r2>>] : r1 \in Rows2, r2 \in Rows2 }
    \cup { DefaultTransition,
           [ndim |-> 2, rows |-> << <<MatScale, 0, 0>>, <<0, MatScale, 0>> >>],
           [ndim |-> 1, rows |-> << <<MatScale>>, <<0>> >>] }

StartStates == -1 .. 3

\* the absorbing three-state chain
Identity3 ==
    [ndim |-> 2,
     rows |-> << <<MatScale, 0, 0>>, <<0, MatScale, 0>>, <<0, 0, MatScale>> >>]

\* MSGBMParams(): the dataclass defaults; sigmas 0.40, 0.80, 1.60 and a
\* dt_minutes with sqrt(dt) = 1/RootDen (0.99995 minutes)
DefaultMSGBMParams ==
    [dt_root |-> 1, s0 |-> 100, mu_annual |-> 0, sigmas_annual |-> <<2, 4, 8>>,
     transition |-> DefaultTransition]

\* The MSGBMParams objects simulate_markov_switching_gbm is called with: the
\* defaults, a zero and a negative s0, a zero low-regime volatility (on the
\* default and on the absorbing chain), a drift of 0.02 with a fourfold dt,
\* two volatilities for three states, and a matrix whose first row sums to
\* 1 - 1e-6.
GbmConfigs ==
    { DefaultMSGBMParams,
      [DefaultMSGBMParams EXCEPT !.s0 = 0],
      [DefaultMSGBMParams EXCEPT !.s0 = -100],
      [DefaultMSGBMParams EXCEPT !.sigmas_annual = <<0, 4, 8>>],
      [DefaultMSGBMParams EXCEPT !.sigmas_annual = <<0, 4, 8>>,
                                 !.transition = Identity3],
      [DefaultMSGBMParams EXCEPT !.transition = Identity3],
      [DefaultMSGBMParams EXCEPT !.mu_annual = 1, !.dt_root = 2],
      [DefaultMSGBMParams EXCEPT !.sigmas_annual = <<2, 4>>],
      [DefaultMSGBMParams EXCEPT
          !.transition = [ndim |-> 2,
                          rows |-> << <<MatScale - MatScale \div (10 ^ 6), 0>>,
                                      <<0, MatScale>> >>]] }

\* values of rng.standard_normal
Normals == {-1, 0, 1}

\* main's configs: no kill switch, pause, widen
MainConfigs ==
    << [DefaultMMParams EXCEPT !.kill_switch_mode = "None"],
       [DefaultMMParams EXCEPT !.kill_switch_mode = "pause"],
       [DefaultMMParams EXCEPT !.kill_switch_mode = "widen"] >>

\* regime paths of the default chain from start_state 0
MainRegimes(n) ==
    { r \in [1 .. n -> 0 .. 2] :
        /\ n >= 1 => r[1] = 0
        /\ \A t \in 1 .. n - 1 :
             r[t + 1] \in ChoiceSupport(DefaultTransition.rows[r[t] + 1]) }

NoCall ==
    [op |-> "none", mid |-> 0, mid_next |-> 0, regime |-> 0, st0 |-> NewMMState,
     res |-> Raised("none", "none", NewMMState), u |-> <<>>, pos |-> 0]

NoRun == [RunEntered(<<>>, <<>>) EXCEPT !.pc = "idle"]

NoChain == [ChainEntered(DefaultTransition, 0, 0) EXCEPT !.pc = "idle"]

NoSim == [SimEntered(DefaultMSGBMParams, 0, 0) EXCEPT !.pc = "idle"]

NoMain == [MainEntered(<<>>, <<>>, MainConfigs) EXCEPT !.pc = "idle"]

\* ------------------------------------------------------------------ behaviour

Init ==
    /\ entry \in {"step_mm", "quote_prices", "run_mm_on_path", "sample_regimes",
                 "simulate_markov_switching_gbm", "main"}
    /\ \/ entry = "step_mm" /\ params \in ParamConfigs /\ st = NewMMState
       \/ entry = "quote_prices" /\ params \in QuoteConfigs
            /\ st \in {[cash |-> 0, inv |-> i] : i \in -MaxInv .. MaxInv}
       \/ entry = "run_mm_on_path" /\ params \in RunConfigs /\ st = NewMMState
       \/ entry \in {"sample_regimes", "simulate_markov_switching_gbm", "main"}
            /\ params = DefaultMMParams /\ st = NewMMState
    /\ calls = 0
    /\ last = NoCall
    /\ run = NoRun
    /\ chain = NoChain
    /\ sim = NoSim
    /\ main = NoMain

\* One call step_mm(mid, mid_next, regime, st, params, rng) on the execution's
\* MMState; a call that raises leaves st as it is.  last.u is the values the
\* call took from rng, in order, last.pos the number of values taken from rng
\* so far.
StepCall ==
    /\ entry = "step_mm"
    /\ calls < MaxCalls
    /\ \E mm \in MidPairs, regime \in Regimes, u1 \in Draws, u2 \in Draws :
         \E r \in {step_mm(mm[1], mm[2], regime, st, params, <<u1, u2>>)} :
             /\ st' = r.st
             /\ last' = [op |-> "step_mm", mid |-> mm[1], mid_next |-> mm[2],
                         regime |-> regime, st0 |-> st, res |-> r,
                         u |-> SubSeq(<<u1, u2>>, 1, r.draws),
                         pos |-> last.pos + r.draws]
    /\ calls' = calls + 1
    /\ UNCHANGED <<entry, params, run, chain, sim, main>>

\* One call quote_prices(mid, regime, st, params): a pure function of its
\* arguments.
QuoteCall ==
    /\ entry = "quote_prices"
    /\ \E mm \in MidPairs, regime \in Regimes :
         last' = [op |-> "quote_prices", mid |-> mm[1], mid_next |-> mm[2],
                  regime |-> regime, st0 |-> st,
                  res |-> quote_prices(mm[1], regime, st, params),
                  u |-> <<>>, pos |-> 0]
    /\ UNCHANGED <<entry, params, st, calls, run, chain, sim, main>>

\* run_mm_on_path(prices, regimes, mm_params, seed) up to its loop, on a valid
\* path: len(prices) = len(regimes) + 1.
RunStart ==
    /\ entry = "run_mm_on_path"
    /\ run.pc = "idle"
    /\ \E n \in 0 .. MaxSteps :
         \E prices \in [1 .. n + 1 -> RunPrices], regimes \in [1 .. n -> Regimes] :
           run' = RunEntered(prices, regimes)
    /\ UNCHANGED <<entry, params, st, calls, last, chain, sim, main>>

\* One iteration of the loop: info = step_mm(mid, regime, state, mm_params, rng)
\* passes five positional arguments, then lines 52-58 append the entries.
RunIter ==
    /\ entry \in {"run_mm_on_path", "main"}
    /\ run.pc = "loop"
    /\ run.t < Len(run.regimes)
    /\ \E u1 \in Draws, u2 \in Draws :
         LET args == <<run.prices[run.t + 1], run.regimes[run.t + 1], run.state, params, "rng">>
         IN  IF Len(args) # StepMMArity
             THEN run' = RunFailed(run, "TypeError")
             ELSE \E r \in {step_mm(args[1], args[2], args[3], args[4], args[5], <<u1, u2>>)} :
                    run' = IF r.err # "none" THEN RunFailed(run, r.err)
                           ELSE RunAppended(run, args[1], r)
    /\ UNCHANGED <<entry, params, st, calls, last, chain, sim, main>>

\* The loop is over: the four arrays are returned.
RunReturn ==
    /\ entry \in {"run_mm_on_path", "main"}
    /\ run.pc = "loop"
    /\ run.t = Len(run.regimes)
    /\ run' = [run EXCEPT !.pc = "returned"]
    /\ UNCHANGED <<entry, params, st, calls, last, chain, sim, main>>

\* sample_regimes(n_steps, transition, start_state, rng) up to its loop.
ChainCall ==
    /\ entry = "sample_regimes"
    /\ chain.pc = "idle"
    /\ \E P \in Matrices, start_state \in StartStates, n_steps \in 0 .. MaxSteps :
         chain' = ChainEntered(P, start_state, n_steps)
    /\ UNCHANGED <<entry, params, st, calls, last, run, sim, main>>

\* One iteration: states[t] = s, then s = rng.choice(n_states, p=transition[s]).
ChainIter ==
    /\ entry \in {"sample_regimes", "simulate_markov_switching_gbm"}
    /\ chain.pc = "loop"
    /\ chain.t < chain.n_steps
    /\ IF ChoiceRaises(chain.P.rows[chain.s + 1])
       THEN chain' = [chain EXCEPT !.pc = "raised", !.err = "ValueError",
                                   !.raised_in = "choice",
                                   !.states = Append(@, chain.s)]
       ELSE \E j \in ChoiceSupport(chain.P.rows[chain.s + 1]) :
              chain' = ChainStepped(chain, j)
    /\ UNCHANGED <<entry, params, st, calls, last, run, sim, main>>

\* The loop is over: states is returned.
ChainReturn ==
    /\ entry \in {"sample_regimes", "simulate_markov_switching_gbm"}
    /\ chain.pc = "loop"
    /\ chain.t = chain.n_steps
    /\ chain' = [chain EXCEPT !.pc = "returned"]
    /\ UNCHANGED <<entry, params, st, calls, last, run, sim, main>>

\* simulate_markov_switching_gbm(n_steps, params, start_state, seed) up to its
\* call of sample_regimes (lines 75-79).
SimCall ==
    /\ entry = "simulate_markov_switching_gbm"
    /\ sim.pc = "idle"
    /\ \E gp \in GbmConfigs, start_state \in StartStates, n_steps \in 0 .. MaxSteps :
         /\ sim' = SimEntered(gp, start_state, n_steps)
         /\ chain' = ChainEntered(gp.transition, start_state, n_steps)
    /\ UNCHANGED <<entry, params, st, calls, last, run, main>>

\* sample_regimes has returned or raised: lines 81-101 with
\* Z = rng.standard_normal(n_steps).
SimPrices ==
    /\ entry = "simulate_markov_switching_gbm"
    /\ sim.pc = "regimes"
    /\ chain.pc \in {"returned", "raised"}
    /\ IF chain.pc = "raised"
       THEN sim' = SimRaised(sim, chain.err)
       ELSE \E Z \in [1 .. sim.n_steps -> Normals] :
              sim' = SimReturned(sim, chain.states, Z)
    /\ UNCHANGED <<entry, params, st, calls, last, run, chain, main>>

\* main up to its loop: one shared path as simulate_markov_switching_gbm
\* returns it for the default chain (n_steps >= 1), and the three configs.
MainStart ==
    /\ entry = "main"
    /\ main.pc = "idle"
    /\ \E n \in 1 .. MaxSteps :
         \E prices \in [1 .. n + 1 -> RunPrices], regimes \in MainRegimes(n) :
           main' = MainEntered(prices, regimes, MainConfigs)
    /\ UNCHANGED <<entry, params, st, calls, last, run, chain, sim>>

\* line 110: out = run_mm_on_path(prices, regimes, params, seed=42) for the
\* next configuration.
MainRunCall ==
    /\ entry = "main"
    /\ main.pc = "loop"
    /\ run.pc = "idle"
    /\ run' = RunEntered(main.prices, main.regimes)
    /\ params' = main.configs[main.i]
    /\ UNCHANGED <<entry, st, calls, last, chain, sim, main>>

\* lines 110-112: the call returned or raised.
MainCollect ==
    /\ entry = "main"
    /\ main.pc = "loop"
    /\ run.pc \in {"returned", "failed"}
    /\ main' = MainCollected(main, run)
    /\ run' = IF run.pc = "failed" THEN run ELSE NoRun
    /\ UNCHANGED <<entry, params, st, calls, last, chain, sim>>

Next ==
    \/ StepCall
    \/ QuoteCall
    \/ RunStart
    \/ RunIter
    \/ RunReturn
    \/ ChainCall
    \/ ChainIter
    \/ ChainReturn
    \/ SimCall
    \/ SimPrices
    \/ MainStart
    \/ MainRunCall
    \/ MainCollect

Spec == Init /\ [][Next]_vars

\* ------------------------------------------------------------------ claims

IsStep == last.op = "step_mm"
IsQuote == last.op = "quote_prices"

\* regime 0 -> low, 1 -> medium, otherwise high
BaseSpreadBps ==
    CASE last.regime = 0 -> params.spread_bps_low
      [] last.regime = 1 -> params.spread_bps_med
      [] OTHER -> params.spread_bps_high

\* The spread (bps) read back from the returned quotes:
\* ask - bid = spread + 0.5 * skew, skew = mid * skew_bps/10000 * inv.
AppliedSpreadBps ==
    (last.res.ask.v - last.res.bid.v
        - last.mid * params.skew_bps_per_unit * last.st0.inv) \div (2 * last.mid)

\* C1: after every step_mm call (at a valid mid) of an execution that started
\* with inventory 0, -inv_cap <= inventory <= inv_cap.
C1_InventoryWithinCap ==
    (IsStep /\ last.mid > 0) =>
        /\ -params.inv_cap <= st.inv * CapScale
        /\ st.inv * CapScale <= params.inv_cap

\* C2: on a valid path run_mm_on_path never fails, and returns after exactly
\* one step_mm execution and one entry per step.
C2_RunCompletes ==
    entry = "run_mm_on_path" =>
        /\ run.pc # "failed"
        /\ run.pc = "returned" =>
             /\ run.steps = Len(run.regimes)
             /\ Len(run.inventory) = Len(run.regimes)

PauseCase ==
    /\ params.kill_switch_mode = "pause"
    /\ last.regime >= params.kill_switch_regime

\* C3: with mode "pause" and regime >= kill_switch_regime, quote_prices returns
\* (NaN, NaN, False); the step record has NaN quotes and no fill, no draw is
\* taken, and cash and inventory are what they were before the step.
C3_PauseLeavesStateUnchanged ==
    /\ (IsQuote /\ PauseCase) =>
         /\ last.res.err = "none"
         /\ last.res.bid.nan /\ last.res.ask.nan
         /\ ~last.res.enabled
    /\ (IsStep /\ PauseCase) =>
         /\ last.res.err = "none"
         /\ last.res.bid.nan /\ last.res.ask.nan
         /\ last.res.filled = "None"
         /\ ~last.res.bought /\ ~last.res.sold
         /\ st.cash = last.st0.cash
         /\ st.inv = last.st0.inv

\* C3 witness: a paused step taken with non-zero inventory and cash.
C3_Witness ==
    /\ IsStep /\ PauseCase
    /\ last.st0.inv # 0 /\ last.st0.cash # 0
    /\ last.mid > 0

\* C4: the net inventory change of a step_mm call is +1 exactly when only the
\* buy side fills, -1 exactly when only the sell side fills, and 0 when
\* neither or both fill.
C4_InventoryChangePerStep ==
    IsStep =>
        /\ st.inv - last.st0.inv \in {-1, 0, 1}
        /\ (st.inv - last.st0.inv = 1) <=> (last.res.bought /\ ~last.res.sold)
        /\ (st.inv - last.st0.inv = -1) <=> (last.res.sold /\ ~last.res.bought)
        /\ (st.inv - last.st0.inv = 0) <=> (last.res.bought <=> last.res.sold)
        /\ (last.res.filled = "buy") <=> (last.res.bought /\ ~last.res.sold)
        /\ (last.res.filled = "sell") <=> (last.res.sold /\ ~last.res.bought)
        /\ (last.res.filled = "buy+sell") <=> (last.res.bought /\ last.res.sold)

\* C4 witness: both sides filled in one step, from a non-zero inventory.
C4_Witness ==
    /\ IsStep
    /\ last.res.filled = "buy+sell"
    /\ last.st0.inv # 0
    /\ st.inv = last.st0.inv

\* C5: a call with mid <= 0 fails instead of producing a result, and changes
\* neither cash nor inventory.
C5_NonPositiveMidRejected ==
    ((IsStep \/ IsQuote) /\ last.mid <= 0) =>
        /\ last.res.err # "none"
        /\ st = last.st0

InvalidModeCase ==
    /\ params.kill_switch_mode \notin {"None", "pause", "widen"}
    /\ last.regime >= params.kill_switch_regime

\* C6: with an unrecognised kill_switch_mode, a call with
\* regime >= kill_switch_regime fails with the ValueError of quote_prices,
\* before any draw and with cash and inventory untouched; a run whose step
\* raised has returned nothing and executes no later step.
C6_InvalidModeAborts ==
    /\ [](/\ (IsQuote /\ InvalidModeCase) => last.res.err = "ValueError"
          /\ (IsStep /\ InvalidModeCase) =>
               /\ last.res.err = "ValueError"
               /\ last.res.raised_in = "quote_prices"
               /\ last.res.draws = 0
               /\ st = last.st0
          /\ run.err # "none" => run.pc = "failed")
    /\ [][run.pc = "failed" => run' = run]_vars

\* C6 witness: a step with an unrecognised mode raised at regime >=
\* kill_switch_regime on a state that earlier steps had changed.
C6_Witness ==
    /\ IsStep /\ InvalidModeCase
    /\ last.res.err = "ValueError"
    /\ last.st0.inv # 0

WidenCase == params.kill_switch_mode = "widen" /\ last.mid # 0

\* C7: with mode "widen" the quotes carry max(base spread, 80) bps when
\* regime >= kill_switch_regime, and exactly the base spread below it;
\* quoting stays enabled.
C7_WidenSpreadFloor ==
    ((IsQuote \/ IsStep) /\ WidenCase) =>
        /\ last.res.err = "none"
        /\ ~last.res.bid.nan /\ ~last.res.ask.nan
        /\ IsQuote => last.res.enabled
        /\ last.regime >= params.kill_switch_regime =>
             /\ AppliedSpreadBps = Max(BaseSpreadBps, 80)
             /\ AppliedSpreadBps >= 80
        /\ last.regime < params.kill_switch_regime =>
             AppliedSpreadBps = BaseSpreadBps

\* C7 witness: a widened quote whose base spread is above the floor, at a
\* non-zero inventory.
C7_Witness ==
    /\ IsQuote /\ WidenCase
    /\ last.regime >= params.kill_switch_regime
    /\ BaseSpreadBps > 80
    /\ AppliedSpreadBps = BaseSpreadBps
    /\ last.st0.inv # 0

\* C8: with mode None every call quotes, whatever the regime, the threshold
\* and the inventory, with the regime's base spread unchanged.
C8_DisabledKillSwitchQuotes ==
    /\ (IsQuote /\ params.kill_switch_mode = "None") =>
         /\ last.res.err = "none"
         /\ last.res.enabled
         /\ ~last.res.bid.nan /\ ~last.res.ask.nan
         /\ last.mid # 0 => AppliedSpreadBps = BaseSpreadBps
    /\ (IsStep /\ params.kill_switch_mode = "None" /\ last.mid # 0) =>
         /\ last.res.err = "none"
         /\ ~last.res.bid.nan /\ ~last.res.ask.nan
         /\ AppliedSpreadBps = BaseSpreadBps

\* C8 witness: regime 2 at or above the threshold, non-zero inventory, quoted
\* at spread_bps_high.
C8_Witness ==
    /\ IsQuote /\ params.kill_switch_mode = "None"
    /\ last.regime = 2 /\ params.kill_switch_regime <= 2
    /\ last.st0.inv # 0 /\ last.mid > 0
    /\ last.res.enabled
    /\ AppliedSpreadBps = params.spread_bps_high

AdverseStep ==
    /\ IsStep /\ params.adverse_selection
    /\ last.mid > 0 /\ last.res.err = "none"

\* C9 as stated: with adverse selection enabled, every probability compared
\* with a draw lies in [0, 0.95], whatever the sign of the next-step return.
C9_ProbabilityAtMostCap ==
    AdverseStep =>
        /\ last.res.tried_buy => (0 <= last.res.p_bid /\ last.res.p_bid <= ProbCap)
        /\ last.res.tried_sell => (0 <= last.res.p_ask /\ last.res.p_ask <= ProbCap)

\* C9 amended: every probability compared with a draw lies in [0, 1]; it is at
\* most 0.95 on the side the adverse-selection scaling is applied to (the bid
\* side when the next-step return is negative, the ask side when positive).
C9_ProbabilityCappedWhenScaled ==
    AdverseStep =>
        /\ last.res.tried_buy =>
             /\ 0 <= last.res.p_bid /\ last.res.p_bid <= ProbScale
             /\ last.mid_next < last.mid => last.res.p_bid <= ProbCap
        /\ last.res.tried_sell =>
             /\ 0 <= last.res.p_ask /\ last.res.p_ask <= ProbScale
             /\ last.mid_next > last.mid => last.res.p_ask <= ProbCap

\* C9 witness: the cap bites (scaled bid probability equal to 0.95) under a
\* toxicity multiplier of 10.
C9_Witness ==
    /\ AdverseStep
    /\ last.res.tried_buy
    /\ last.mid_next < last.mid
    /\ last.regime = 2 /\ params.tox_high = 10 * TenthScale
    /\ last.res.p_bid = ProbCap

\* what C10 calls a valid input: square, every row sums to 1 within 1e-8, no
\* negative entry, start_state a row index
C10_ValidInput ==
    /\ chain.P.ndim = 2
    /\ \A i \in 1 .. Len(chain.P.rows) :
         /\ Len(chain.P.rows[i]) = Len(chain.P.rows)
         /\ Abs(SumSeq(chain.P.rows[i]) - MatScale) <= MatScale \div (10 ^ 8)
         /\ \A j \in 1 .. Len(chain.P.rows[i]) : chain.P.rows[i][j] >= 0
    /\ 0 <= chain.start_state /\ chain.start_state < Len(chain.P.rows)

\* C10: sample_regimes fails before emitting a label or taking a draw on every
\* invalid input, and accepts every valid one.
C10_TransitionValidated ==
    chain.pc # "idle" =>
        /\ ~C10_ValidInput =>
             /\ chain.pc = "raised"
             /\ chain.states = <<>>
             /\ chain.draws = 0
        /\ C10_ValidInput => chain.pc # "raised"

\* C11: on a valid input sample_regimes does not raise and returns exactly
\* n_steps labels, each a row index of the matrix; the label appended at step
\* t is the chain state before the transition drawn at step t (so the first
\* label is start_state), one transition is drawn per label, and the state
\* the last transition led to is in no label.
C11_RegimeChainOutput ==
    /\ []((chain.pc # "idle" /\ C10_ValidInput) =>
            /\ chain.pc # "raised"
            /\ Len(chain.states) = chain.t
            /\ chain.draws = chain.t
            /\ chain.t <= chain.n_steps
            /\ \A t \in 1 .. Len(chain.states) :
                 chain.states[t] \in 0 .. Len(chain.P.rows) - 1
            /\ Len(chain.states) >= 1 => chain.states[1] = chain.start_state
            /\ chain.pc = "returned" => Len(chain.states) = chain.n_steps)
    /\ [][(chain.pc = "loop" /\ C10_ValidInput /\ chain'.t # chain.t) =>
            /\ chain'.states = Append(chain.states, chain.s)
            /\ chain'.s \in 0 .. Len(chain.P.rows) - 1
            /\ chain.P.rows[chain.s + 1][chain'.s + 1] > 0]_vars

\* C11 witness: a returned path of two labels that change, whose last drawn
\* transition led to a state other than the last label.
C11_Witness ==
    /\ chain.pc = "returned" /\ C10_ValidInput
    /\ chain.n_steps = 2 /\ Len(chain.states) = 2
    /\ chain.states[1] = chain.start_state
    /\ chain.states[2] # chain.states[1]
    /\ chain.s # chain.states[2]

IsSim == entry = "simulate_markov_switching_gbm"

\* the lengths and the first price of a returned path
SimShape ==
    /\ Len(sim.prices) = sim.n_steps + 1
    /\ sim.prices[1] = Price(sim.gp.s0, 0)
    /\ Len(sim.states) = sim.n_steps
    /\ Len(sim.sigmas_step) = sim.n_steps

\* base * exp(log) > 0
PricePositive(pr) == pr.base > 0

\* C12 as stated: for every parameter set (any s0, drift, volatilities, dt)
\* on a valid chain, simulate_markov_switching_gbm returns n_steps+1 prices
\* with prices[0] = s0, n_steps regimes and volatilities, and every price > 0.
C12_PricePathPositive ==
    (IsSim /\ sim.pc # "idle" /\ C10_ValidInput) =>
        /\ sim.pc # "raised"
        /\ sim.pc = "returned" =>
             /\ SimShape
             /\ \A k \in 1 .. Len(sim.prices) : PricePositive(sim.prices[k])

\* C12 amended: the same for s0 > 0 and one volatility per state of the chain.
C12_PricePathPositiveForPositiveS0 ==
    (/\ IsSim /\ sim.pc # "idle" /\ C10_ValidInput
     /\ sim.gp.s0 > 0
     /\ Len(sim.gp.sigmas_annual) >= Len(sim.gp.transition.rows)) =>
        /\ sim.pc # "raised"
        /\ sim.pc = "returned" =>
             /\ SimShape
             /\ \A k \in 1 .. Len(sim.prices) : PricePositive(sim.prices[k])

\* C12 witness: a returned two-step path from s0 = 100 over two regimes whose
\* last price is below s0.
C12_Witness ==
    /\ IsSim /\ sim.pc = "returned" /\ C10_ValidInput
    /\ sim.gp.s0 = 100 /\ sim.n_steps = 2
    /\ Len(sim.prices) = 3
    /\ sim.states[1] # sim.states[2]
    /\ sim.prices[3].log < 0

IsIdentity(P) ==
    /\ P.ndim = 2
    /\ \A i \in 1 .. Len(P.rows) :
         /\ Len(P.rows[i]) = Len(P.rows)
         /\ \A j \in 1 .. Len(P.rows) : P.rows[i][j] = IF i = j THEN MatScale ELSE 0

ZeroVolCase ==
    /\ IsSim /\ sim.pc # "idle"
    /\ IsIdentity(sim.gp.transition)
    /\ sim.start_state = 0 /\ sim.gp.s0 = 100 /\ sim.gp.mu_annual = 0
    /\ Len(sim.gp.sigmas_annual) >= 1 /\ sim.gp.sigmas_annual[1] = 0

\* C14: with the identity matrix every label, and the state after every
\* transition, is start_state; with start_state 0, s0 = 100, zero drift and
\* zero low-regime volatility the call returns, every log-return is 0 and
\* every price is 100.0.
C14_AbsorbingChain ==
    /\ (/\ chain.pc # "idle" /\ IsIdentity(chain.P)
        /\ 0 <= chain.start_state /\ chain.start_state < Len(chain.P.rows)) =>
          /\ chain.pc # "raised"
          /\ chain.s = chain.start_state
          /\ \A t \in 1 .. Len(chain.states) : chain.states[t] = chain.start_state
          /\ chain.pc = "returned" => Len(chain.states) = chain.n_steps
    /\ ZeroVolCase =>
          /\ sim.pc # "raised"
          /\ sim.pc = "returned" =>
               /\ Len(sim.prices) = sim.n_steps + 1
               /\ \A t \in 1 .. Len(sim.log_returns) : sim.log_returns[t] = 0
               /\ \A k \in 1 .. Len(sim.prices) : sim.prices[k] = Price(100, 0)

\* C14 witness: the zero-volatility path of two steps, drawn with non-zero
\* normals.
C14_Witness ==
    /\ ZeroVolCase /\ sim.pc = "returned"
    /\ sim.n_steps = 2 /\ Len(sim.prices) = 3
    /\ sim.Z[1] # 0 /\ sim.Z[2] # 0
    /\ sim.states = <<0, 0>>

\* the multiplier C15 states: 1.0, tox_med, and tox_high for regime >= 2
ToxAsStated ==
    IF last.regime = 0 THEN TenthScale
    ELSE IF last.regime = 1 THEN params.tox_med
    ELSE params.tox_high

\* C15: with adverse selection enabled the bid probability is
\* min(0.95, p * tox) when the next-step return is negative and p otherwise,
\* the ask probability likewise when it is positive, with tox = 1.0 for regime
\* 0, tox_med for regime 1 and tox_high for every regime >= 2.
C15_ToxicityByRegime ==
    AdverseStep =>
        /\ last.res.tried_buy =>
             last.res.p_bid =
                IF last.mid_next < last.mid
                THEN Min(ProbCap,
                         (FillProb(last.mid, last.res.bid.v, params) * ToxAsStated)
                             \div TenthScale)
                ELSE FillProb(last.mid, last.res.bid.v, params)
        /\ last.res.tried_sell =>
             last.res.p_ask =
                IF last.mid_next > last.mid
                THEN Min(ProbCap,
                         (FillProb(last.mid, last.res.ask.v, params) * ToxAsStated)
                             \div TenthScale)
                ELSE FillProb(last.mid, last.res.ask.v, params)

QuotingStep == IsStep /\ last.res.err = "none" /\ ~last.res.bid.nan

\* C16: each side is admitted on the inventory the step starts with (buy iff
\* inventory < inv_cap, sell iff inventory > -inv_cap), also when the buy of
\* the same step has moved the inventory; the buy side is decided by the
\* first value taken from rng and the sell side by the one after it; both
\* sides fill only from an inventory strictly inside the cap.
C16_AdmissionFromPreStepInventory ==
    QuotingStep =>
        /\ last.res.tried_buy <=> last.st0.inv * CapScale < params.inv_cap
        /\ last.res.tried_sell <=> last.st0.inv * CapScale > -params.inv_cap
        /\ last.res.bought => last.res.tried_buy
        /\ last.res.sold => last.res.tried_sell
        /\ last.res.tried_buy => (last.res.bought <=> last.u[1] < last.res.p_bid)
        /\ (last.res.tried_buy /\ last.res.tried_sell) =>
             (last.res.sold <=> last.u[2] < last.res.p_ask)
        /\ last.res.filled = "buy+sell" =>
             /\ -params.inv_cap < last.st0.inv * CapScale
             /\ last.st0.inv * CapScale < params.inv_cap

\* C16 witness: a step that starts at inventory -inv_cap buys and, back
\* inside the cap, still does not try to sell.
C16_Witness ==
    /\ QuotingStep
    /\ params.inv_cap > 0
    /\ last.st0.inv * CapScale = -params.inv_cap
    /\ last.res.bought
    /\ ~last.res.tried_sell
    /\ st.inv = last.st0.inv + 1

\* C17: in a quoting step bid and ask are those of the inventory the step
\* starts with; the outcome is None, "buy", "sell" or "buy+sell" and the
\* step changes cash by 0, -bid, +ask, ask - bid and inventory by 0, +1, -1, 0.
C17_CashMatchesFillRecord ==
    QuotingStep =>
        /\ last.res.bid.v =
             BidOf(last.mid, KillSwitch(last.regime, params).spread_bps, params,
                   last.st0.inv)
        /\ last.res.ask.v =
             AskOf(last.mid, KillSwitch(last.regime, params).spread_bps, params,
                   last.st0.inv)
        /\ last.res.filled \in {"None", "buy", "sell", "buy+sell"}
        /\ last.res.filled = "None" => st = last.st0
        /\ last.res.filled = "buy" =>
             /\ st.cash - last.st0.cash = -last.res.bid.v
             /\ st.inv - last.st0.inv = 1
        /\ last.res.filled = "sell" =>
             /\ st.cash - last.st0.cash = last.res.ask.v
             /\ st.inv - last.st0.inv = -1
        /\ last.res.filled = "buy+sell" =>
             /\ st.cash - last.st0.cash = last.res.ask.v - last.res.bid.v
             /\ st.inv - last.st0.inv = 0

\* C17 witness: both sides fill from a skewed quote and cash moves by
\* ask - bid.
C17_Witness ==
    /\ QuotingStep
    /\ last.mid > 0
    /\ last.st0.inv # 0 /\ params.skew_bps_per_unit # 0
    /\ last.res.filled = "buy+sell"
    /\ st.cash - last.st0.cash = last.res.ask.v - last.res.bid.v
    /\ st.cash # last.st0.cash

AdmittedSides ==
    (IF last.st0.inv * CapScale < params.inv_cap THEN 1 ELSE 0)
        + (IF last.st0.inv * CapScale > -params.inv_cap THEN 1 ELSE 0)

\* C19: a step_mm call takes no value from rng when quoting is disabled (or
\* the call raises), and otherwise one per admitted side, so the position of
\* rng advances by 0, 1 or 2 per step.
C19_DrawsPerStep ==
    IsStep =>
        /\ last.res.err # "none" => last.res.draws = 0
        /\ (last.res.err = "none" /\ last.res.bid.nan) => last.res.draws = 0
        /\ QuotingStep => last.res.draws = AdmittedSides
        /\ last.res.draws \in 0 .. 2
        /\ last.pos <= 2 * calls

\* C19 witness: after two steps of one configuration rng stands at its third
\* value (the second step, at the cap, took one), where a paused
\* configuration stands at 0 and an uncapped one at 4.
C19_Witness ==
    /\ QuotingStep
    /\ calls = 2
    /\ last.res.draws = 1
    /\ last.pos = 3

\* the MMParams defaults C20 names
DefaultQuoting ==
    /\ params.spread_bps_low = 8 /\ params.spread_bps_med = 12
    /\ params.spread_bps_high = 25
    /\ params.skew_bps_per_unit = 2
    /\ params.inv_cap = 3 * CapScale

\* C20: with the default spreads, skew and cap, mid > 0 and inventory in
\* [-inv_cap, inv_cap], every quote has bid < ask, for every regime and
\* kill-switch mode, and a "buy+sell" step gains cash.
C20_QuotesNotCrossed ==
    (/\ IsStep \/ IsQuote
     /\ DefaultQuoting
     /\ last.mid > 0
     /\ last.res.err = "none" /\ ~last.res.bid.nan
     /\ Abs(last.st0.inv) * CapScale <= params.inv_cap) =>
        /\ last.res.bid.v < last.res.ask.v
        /\ (IsStep /\ last.res.filled = "buy+sell") => st.cash > last.st0.cash

\* C20 witness: the narrowest default quote: regime 0 at inventory -inv_cap,
\* ask - bid = 5 bps of mid.
C20_Witness ==
    /\ IsQuote /\ DefaultQuoting
    /\ last.mid > 0 /\ last.regime = 0
    /\ last.st0.inv * CapScale = -params.inv_cap
    /\ ~last.res.bid.nan
    /\ last.res.ask.v - last.res.bid.v = 10 * last.mid

====
